---- MODULE Spec2Model ----
(***************************************************************************)
(* Model of luci-lte.py: a command line driver that logs in to a LuCI      *)
(* JSON-RPC endpoint, sets a network interface up or down, commits, waits  *)
(* and reads the interface back.                                           *)
(*                                                                         *)
(* The process is single threaded.  Its position (pc) advances at the      *)
(* points where it blocks: each requests.post and the time.sleep.  What    *)
(* the remote host answers to a call is the environment's choice.          *)
(*                                                                         *)
(* JSON values are written as their JSON text ("null", "\"tok123\"", "0"). *)
(* Python values are written as their repr ("None", "'tok123'", "0").      *)
(***************************************************************************)
EXTENDS Integers, Sequences, FiniteSets, TLC

\* ------------------------------------------------------------------------
\* Bounds of the model
\* ------------------------------------------------------------------------

\* longest command line (number of arguments after the program name)
MaxArgs == 3

\* ------------------------------------------------------------------------
\* Program constants
\* ------------------------------------------------------------------------

\* timeout=4 of the login POST
LoginTimeout == 4
\* the set, commit and get_all POSTs pass no timeout (requests: None)
NoTimeout == 0
\* exit(2): the interface does not exist
ExitNotFound == 2
\* sys.exit(5): LuciParser.error
ExitUsage == 5
\* time.sleep(1)
SleepSeconds == 1

\* ------------------------------------------------------------------------
\* Values
\* ------------------------------------------------------------------------

\* marker of a key that is missing from a JSON object
Absent == "<absent>"
\* JSON texts a field of a response body can hold
JsonNull == "null"
JsonVals == {"\"tok123\"", "\"\"", "0"}
FieldVals == {Absent, JsonNull} \cup JsonVals

\* Python values
PyNone == "None"
\* a local that has not been assigned yet
Unbound == "<unbound>"
\* an environment variable that is not set
Unset == "<unset>"

\* json.loads of one JSON text, as the repr of the Python value
json_loads(j) ==
    CASE j = "null" -> PyNone
      [] j = "\"tok123\"" -> "'tok123'"
      [] j = "\"\"" -> "''"
      [] j = "0" -> "0"

\* str(v) of a Python value, as an f-string formats it
PyStr(v) ==
    CASE v = "None" -> "None"
      [] v = "'tok123'" -> "tok123"
      [] v = "''" -> ""
      [] v = "0" -> "0"

\* bool(v) of a Python value
PyTruthy(v) == v \notin {"None", "''", "0"}

\* ------------------------------------------------------------------------
\* Exceptions
\* ------------------------------------------------------------------------

NoExc == [type |-> "none", msg |-> "", code |-> 0]
Exc(t, m) == [type |-> t, msg |-> m, code |-> 0]
\* luci_exception.LuciException: an Exception whose str() is its message
LuciException(m) == [type |-> "LuciException", msg |-> m, code |-> 0]
\* sys.exit(c) and exit(c)
SystemExit(c) == [type |-> "SystemExit", msg |-> "", code |-> c]

\* what requests.post can raise instead of returning a response
TransportExcs == {"ConnectTimeout", "ReadTimeout", "ConnectionError"}

\* ------------------------------------------------------------------------
\* Replies of the remote host
\* ------------------------------------------------------------------------

Statuses == {200, 201, 404, 500}

\* kind: "response", or the exception requests.post raises
\* json: "object" (a JSON object), "array" (JSON, but not an object),
\*       "invalid" (the body is not JSON)
Response(s, j, e, r) ==
    [kind |-> "response", status |-> s, json |-> j, error |-> e, result |-> r]
Failure(k) ==
    [kind |-> k, status |-> 0, json |-> "invalid", error |-> Absent, result |-> Absent]
NoReply == Failure("none")

Replies ==
    {Failure(k) : k \in TransportExcs}
    \cup {Response(s, j, Absent, Absent) : s \in Statuses, j \in {"array", "invalid"}}
    \cup {Response(s, "object", e, r) : s \in Statuses, e \in FieldVals, r \in FieldVals}

\* What the remote host does with a request it was sent:
\*   "answers"   the request comes to an end at the host's pace: a response,
\*               or a failure of the transport
\*   "silent"    the host accepts the connection and never sends a byte
\*   "trickles"  the host keeps sending the response slowly, never ending it
HostModes == {"answers", "silent", "trickles"}

\* what requests.post(..., timeout=t) of request c comes back with.  The
\* timeout bounds each wait on the socket, not the call: it fires on a
\* silent host and never on one that keeps sending; without a timeout the
\* call waits on a silent host for ever.
RepliesFrom(h, c) ==
    CASE h = "answers" -> Replies
      [] h = "silent" -> IF c.timeout # NoTimeout
                         THEN {Failure("ReadTimeout")}
                         ELSE {}
      [] h = "trickles" -> {}

\* requests.Response.ok: raise_for_status() does not raise
res_ok(r) == ~(400 <= r.status /\ r.status < 600)

\* res.json()[key]
res_json_get(r, key) ==
    CASE r.json = "invalid" -> [exc |-> Exc("JSONDecodeError", ""), val |-> PyNone]
      [] r.json = "array" -> [exc |-> Exc("TypeError", ""), val |-> PyNone]
      [] r.json = "object" /\ r[key] = Absent ->
            [exc |-> Exc("KeyError", "'" \o key \o "'"), val |-> PyNone]
      [] OTHER -> [exc |-> NoExc, val |-> json_loads(r[key])]

\* ------------------------------------------------------------------------
\* Functions of luci-lte.py, from the response on
\* Each yields [exc, ret, log]: the exception raised (NoExc if none), the
\* value returned, and the lines handed to the logger.
\* ------------------------------------------------------------------------

Raise(e, lines) == [exc |-> e, ret |-> PyNone, log |-> lines]
Return(v, lines) == [exc |-> NoExc, ret |-> v, log |-> lines]
Critical(m) == <<"CRITICAL", m>>
Warning(m) == <<"WARNING", m>>
Info(m) == <<"INFO", m>>
RaiseLuci(m) == Raise(LuciException(m), <<Critical(m)>>)

\* check_rpc_error written with "if error:" instead of "is not None"
check_rpc_error_falsy(error) ==
    IF PyTruthy(error)
    THEN RaiseLuci("Got RCP error " \o PyStr(error))
    ELSE Return(PyNone, <<>>)

check_rpc_error(error) ==
    IF error # PyNone
    THEN RaiseLuci("Got RCP error " \o PyStr(error))
    ELSE Return(PyNone, <<>>)

\* check_rpc_error(res.json()['error'])
check_error_field(r) ==
    LET e == res_json_get(r, "error")
    IN  IF e.exc # NoExc THEN Raise(e.exc, <<>>) ELSE check_rpc_error(e.val)

\* get_new_token written with "if not token:" instead of "is None"
get_new_token_reply_falsy(r) ==
    IF r.kind # "response" THEN Raise(Exc(r.kind, ""), <<>>)
    ELSE IF ~res_ok(r)
    THEN RaiseLuci("Got unexpected response code " \o ToString(r.status))
    ELSE LET c == check_error_field(r)
         IN  IF c.exc # NoExc THEN c
             ELSE LET t == res_json_get(r, "result")
                  IN  IF t.exc # NoExc THEN Raise(t.exc, <<>>)
                      ELSE IF ~PyTruthy(t.val) THEN RaiseLuci("Authentication failed")
                      ELSE Return(t.val, <<>>)

\* get_new_token, after the POST
get_new_token_reply(r) ==
    IF r.kind # "response" THEN Raise(Exc(r.kind, ""), <<>>)
    ELSE IF ~res_ok(r)
    THEN RaiseLuci("Got unexpected response code " \o ToString(r.status))
    ELSE LET c == check_error_field(r)
         IN  IF c.exc # NoExc THEN c
             ELSE LET t == res_json_get(r, "result")
                  IN  IF t.exc # NoExc THEN Raise(t.exc, <<>>)
                      ELSE IF t.val = PyNone THEN RaiseLuci("Authentication failed")
                      ELSE Return(t.val, <<>>)

\* the check written as "if_status not in '01'": a substring test
set_iface_validate_substring(if_status) ==
    IF if_status \notin {"", "0", "1", "01"}
    THEN RaiseLuci("Interface status should be 0 or 1, got " \o if_status
                   \o ". Aborting...")
    ELSE Return(PyNone, <<>>)

\* set_iface, the check of if_status before any call
set_iface_validate(if_status) ==
    IF if_status \notin {"0", "1"}
    THEN RaiseLuci("Interface status should be 0 or 1, got " \o if_status
                   \o ". Aborting...")
    ELSE Return(PyNone, <<>>)

\* a non-OK status of the set POST only logged, as get_iface does
set_iface_set_reply_lenient(r, name, status) ==
    IF r.kind # "response" THEN Raise(Exc(r.kind, ""), <<>>)
    ELSE LET w == IF ~res_ok(r)
                  THEN <<Warning("Failed to set interface " \o name \o " to " \o status
                                 \o " with the error code " \o ToString(r.status))>>
                  ELSE <<>>
             c == check_error_field(r)
         IN  [c EXCEPT !.log = w \o c.log]

\* set_iface, after the set POST
set_iface_set_reply(r, name, status) ==
    IF r.kind # "response" THEN Raise(Exc(r.kind, ""), <<>>)
    ELSE IF ~res_ok(r)
    THEN RaiseLuci("Failed to set interface " \o name \o " to " \o status
                   \o " with the error code " \o ToString(r.status))
    ELSE check_error_field(r)

\* a non-OK status of the commit POST only logged, as get_iface does
set_iface_commit_reply_lenient(r) ==
    IF r.kind # "response" THEN Raise(Exc(r.kind, ""), <<>>)
    ELSE LET w == IF ~res_ok(r)
                  THEN <<Warning("Failed to commit changes with the error code "
                                 \o ToString(r.status))>>
                  ELSE <<>>
             c == check_error_field(r)
         IN  [c EXCEPT !.log = w \o c.log]

\* set_iface, after the commit POST
set_iface_commit_reply(r) ==
    IF r.kind # "response" THEN Raise(Exc(r.kind, ""), <<>>)
    ELSE IF ~res_ok(r)
    THEN RaiseLuci("Failed to commit changes with the error code "
                   \o ToString(r.status))
    ELSE check_error_field(r)

\* logger.warn(msg): Logger.warn is deprecated and warns so before it logs.
\* Python shows a DeprecationWarning on stderr only when it is raised from
\* code of __main__, that is when luci-lte.py runs as the script.
logger_warn_stderr(caller) ==
    IF caller = "main"
    THEN <<"luci-lte.py:118: DeprecationWarning: The 'warn' method is deprecated, use 'warning' instead",
           "  logger.warn(msg)">>
    ELSE <<>>

\* what get_iface writes to stderr besides the logger's lines
get_iface_stderr(r, caller) ==
    IF r.kind = "response" /\ ~res_ok(r) THEN logger_warn_stderr(caller) ELSE <<>>

\* get_iface raising on a non-OK status, as set_iface does
get_iface_reply_strict(r, name) ==
    IF r.kind # "response" THEN Raise(Exc(r.kind, ""), <<>>)
    ELSE IF ~res_ok(r)
    THEN RaiseLuci("Failed to get interface status for " \o name)
    ELSE LET c == check_error_field(r)
         IN  IF c.exc # NoExc THEN c
             ELSE LET v == res_json_get(r, "result")
                  IN  IF v.exc # NoExc THEN Raise(v.exc, <<>>)
                      ELSE Return(v.val, <<>>)

\* get_iface, after the get_all POST
get_iface_reply(r, name) ==
    IF r.kind # "response" THEN Raise(Exc(r.kind, ""), <<>>)
    ELSE LET w == IF ~res_ok(r)
                  THEN <<Warning("Failed to get interface status for " \o name)>>
                  ELSE <<>>
             c == check_error_field(r)
         IN  IF c.exc # NoExc THEN [c EXCEPT !.log = w \o c.log]
             ELSE LET v == res_json_get(r, "result")
                  IN  IF v.exc # NoExc THEN Raise(v.exc, w)
                      ELSE Return(v.val, w)

\* ------------------------------------------------------------------------
\* Command line and environment
\* ------------------------------------------------------------------------

ArgTokens == {"lte", "0", "1", "2", "-h"}
ArgVectors == UNION {[1..n -> ArgTokens] : n \in 0..MaxArgs}

\* the value of an environment variable after load_dotenv()
EnvVals == {Unset, "", "x"}
Envs == [user : EnvVals, pass : EnvVals, url : EnvVals]

\* LuciParser.error: a line on stderr, the help text on stdout, exit status 5
LuciParser_error(message) ==
    [exc |-> SystemExit(ExitUsage), stderr |-> <<"error: " \o message>>,
     stdout |-> <<"help">>, if_name |-> Unbound, if_state |-> Unbound]

\* index of the first -h, or Len(args)+1
FirstHelp(args) ==
    IF \E i \in 1..Len(args) : args[i] = "-h"
    THEN CHOOSE i \in 1..Len(args) :
            args[i] = "-h" /\ \A j \in 1..(i-1) : args[j] # "-h"
    ELSE Len(args) + 1

\* parse_args with if_state declared without choices=('1', '0')
parse_args_nochoices(args) ==
    LET h == FirstHelp(args)
        n == h - 1
    IN  IF h <= Len(args)
        THEN [exc |-> SystemExit(0), stderr |-> <<>>, stdout |-> <<"help">>,
              if_name |-> Unbound, if_state |-> Unbound]
        ELSE IF n < 2
        THEN LuciParser_error("the following arguments are required")
        ELSE IF n > 2
        THEN LuciParser_error("unrecognized arguments")
        ELSE [exc |-> NoExc, stderr |-> <<>>, stdout |-> <<>>,
              if_name |-> args[1], if_state |-> args[2]]

\* parse_args: two positionals, the second one of '1', '0'.  argparse takes
\* the positionals that precede the first option, checking choices as it
\* takes them, then acts on -h (help, exit status 0); leftover or missing
\* positionals are reported at the end.
parse_args(args) ==
    LET h == FirstHelp(args)
        n == h - 1
    IN  IF n >= 2 /\ args[2] \notin {"1", "0"}
        THEN LuciParser_error("argument if_state: invalid choice")
        ELSE IF h <= Len(args)
        THEN [exc |-> SystemExit(0), stderr |-> <<>>, stdout |-> <<"help">>,
              if_name |-> Unbound, if_state |-> Unbound]
        ELSE IF n < 2
        THEN LuciParser_error("the following arguments are required")
        ELSE IF n > 2
        THEN LuciParser_error("unrecognized arguments")
        ELSE [exc |-> NoExc, stderr |-> <<>>, stdout |-> <<>>,
              if_name |-> args[1], if_state |-> args[2]]

\* os.environ.get(name)
os_environ_get(v) == IF v = Unset THEN PyNone ELSE v

\* any([...]) in the place of all([...])
any_truthy(vals) == \E i \in 1..Len(vals) : vals[i] # PyNone /\ vals[i] # ""

\* all([username, password, rpc_url]): every one set and not empty
all_truthy(vals) == \A i \in 1..Len(vals) : vals[i] # PyNone /\ vals[i] # ""

load_auth_data(e) ==
    LET u == os_environ_get(e.user)
        p == os_environ_get(e.pass)
        r == os_environ_get(e.url)
    IN  IF ~all_truthy(<<u, p, r>>)
        THEN RaiseLuci("Failed to parse ENV data. Please specify LuCI username, password and host")
        ELSE Return(<<u, p, r>>, <<>>)

\* the try/except without the ReadTimeout clause
main_handler_noread(e) ==
    CASE e.type = "none" ->
            [stdout |-> <<>>, stderr |-> <<>>, code |-> 0]
      [] e.type = "LuciException" ->
            [stdout |-> <<e.msg>>, stderr |-> <<>>, code |-> 0]
      [] e.type = "ConnectTimeout" ->
            [stdout |-> <<"Connection timed out. Check if the remote host is alive">>,
             stderr |-> <<>>, code |-> 0]
      [] e.type = "SystemExit" ->
            [stdout |-> <<>>, stderr |-> <<>>, code |-> e.code]
      [] OTHER ->
            [stdout |-> <<>>, stderr |-> <<"Traceback">>, code |-> 1]

\* the try/except around main(): what is printed and the exit status
main_handler(e) ==
    CASE e.type = "none" ->
            [stdout |-> <<>>, stderr |-> <<>>, code |-> 0]
      [] e.type = "LuciException" ->
            [stdout |-> <<e.msg>>, stderr |-> <<>>, code |-> 0]
      [] e.type = "ConnectTimeout" ->
            [stdout |-> <<"Connection timed out. Check if the remote host is alive">>,
             stderr |-> <<>>, code |-> 0]
      [] e.type = "ReadTimeout" ->
            [stdout |-> <<"Reading from a connection timed out. Remote host is too slow?">>,
             stderr |-> <<>>, code |-> 0]
      [] e.type = "SystemExit" ->
            [stdout |-> <<>>, stderr |-> <<>>, code |-> e.code]
      [] OTHER ->
            [stdout |-> <<>>, stderr |-> <<"Traceback">>, code |-> 1]

\* ------------------------------------------------------------------------
\* The requests sent
\* ------------------------------------------------------------------------

\* the login POST sent without timeout=4
login_call_untimed(url, u, p) ==
    [method |-> "login", url |-> url \o "/auth", auth |-> Absent,
     timeout |-> NoTimeout, params |-> <<u, p>>]
login_call(url, u, p) ==
    [method |-> "login", url |-> url \o "/auth", auth |-> Absent,
     timeout |-> LoginTimeout, params |-> <<u, p>>]
set_call(url, name, status, tok) ==
    [method |-> "set", url |-> url \o "/uci", auth |-> tok,
     timeout |-> NoTimeout, params |-> <<"network", name, "auto", status>>]
\* the commit POST sent without params=params
commit_call_noauth(url, tok) ==
    [method |-> "commit", url |-> url \o "/uci", auth |-> Absent,
     timeout |-> NoTimeout, params |-> <<"network">>]
commit_call(url, tok) ==
    [method |-> "commit", url |-> url \o "/uci", auth |-> tok,
     timeout |-> NoTimeout, params |-> <<"network">>]
get_all_call(url, name, tok) ==
    [method |-> "get_all", url |-> url \o "/uci", auth |-> tok,
     timeout |-> NoTimeout, params |-> <<"network", name>>]

\* ------------------------------------------------------------------------
\* State
\* ------------------------------------------------------------------------

VARIABLES
    pc,         \* "start", "login_wait", "set_wait", "commit_wait", "sleeping",
                \* "get_wait", "done"
    entry,      \* the function that was started: "main", or one function alone
    argv,       \* the command line
    env,        \* the environment
    if_name, if_state, username, password, rpc_url, token,   \* locals
    calls,      \* the requests sent so far, in order
    last,       \* the reply to the latest request, with the method it answers
    log,        \* the lines handed to the logger
    stdout, stderr,
    exc,        \* the exception that left the entry function
    ret,        \* the value the entry function returned
    exit_code,  \* exit status of the process, once pc = "done" (main only)
    slept,      \* seconds spent in time.sleep
    host        \* what the remote host does with the latest request

vars == <<pc, entry, argv, env, if_name, if_state, username, password, rpc_url,
          token, calls, last, log, stdout, stderr, exc, ret, exit_code, slept,
          host>>

NotExited == 0 - 1

InitCommon ==
    /\ pc = "start"
    /\ calls = <<>>
    /\ last = [method |-> "none", reply |-> NoReply]
    /\ log = <<>>
    /\ stdout = <<>>
    /\ stderr = <<>>
    /\ exc = NoExc
    /\ ret = Unbound
    /\ exit_code = NotExited
    /\ slept = 0
    /\ host = "none"

\* python luci-lte.py <argv>
Init ==
    /\ InitCommon
    /\ entry = "main"
    /\ argv \in ArgVectors
    /\ env \in Envs
    /\ if_name = Unbound /\ if_state = Unbound
    /\ username = Unbound /\ password = Unbound /\ rpc_url = Unbound
    /\ token = Unbound

\* the entry function ends: by exception e, or (e = NoExc) returning v
Finish(e, v, out, err) ==
    /\ pc' = "done"
    /\ host' = host
    /\ exc' = e
    /\ ret' = v
    /\ IF entry = "main"
       THEN LET h == main_handler(e)
            IN  /\ stdout' = stdout \o out \o h.stdout
                /\ stderr' = stderr \o err \o h.stderr
                /\ exit_code' = h.code
       ELSE /\ stdout' = stdout \o out
            /\ stderr' = stderr \o err
            /\ exit_code' = exit_code

Send(c, newpc) ==
    /\ calls' = Append(calls, c)
    /\ pc' = newpc
    /\ host' \in HostModes
    /\ UNCHANGED <<exc, ret, exit_code, stdout, stderr>>

\* main(), up to the login POST
Main ==
    /\ pc = "start" /\ entry = "main"
    /\ LET p == parse_args(argv)
           a == load_auth_data(env)
       IN  IF p.exc # NoExc
           THEN /\ Finish(p.exc, PyNone, p.stdout, p.stderr)
                /\ UNCHANGED <<if_name, if_state, username, password, rpc_url,
                               log, calls>>
           ELSE /\ if_name' = p.if_name
                /\ if_state' = p.if_state
                /\ IF a.exc # NoExc
                   THEN /\ Finish(a.exc, PyNone, <<>>, <<>>)
                        /\ log' = log \o a.log
                        /\ UNCHANGED <<username, password, rpc_url, calls>>
                   ELSE /\ username' = a.ret[1]
                        /\ password' = a.ret[2]
                        /\ rpc_url' = a.ret[3]
                        /\ log' = log \o <<Info("Authenticating...")>>
                        /\ Send(login_call(a.ret[3], a.ret[1], a.ret[2]), "login_wait")
    /\ UNCHANGED <<entry, argv, env, token, last, slept>>

\* main() without the exit(2): the missing interface is logged and the
\* function runs on to the report of the state
main_report_noexit(iface_data, name) ==
    Return(PyNone,
           (IF iface_data = PyNone
            THEN <<Info("Interface " \o name
                        \o " doesn't exist. Please create it before running this program")>>
            ELSE <<>>)
           \o <<Info("Current interface state: " \o PyStr(iface_data))>>)

\* main(), once get_iface has returned iface_data
main_report(iface_data, name) ==
    IF iface_data = PyNone
    THEN Raise(SystemExit(ExitNotFound),
               <<Info("Interface " \o name
                      \o " doesn't exist. Please create it before running this program")>>)
    ELSE Return(PyNone, <<Info("Current interface state: " \o PyStr(iface_data))>>)

\* the reply to the login POST arrives: the rest of get_new_token, then
\* main() up to the set POST
LoginReply ==
    /\ pc = "login_wait"
    /\ \E r \in RepliesFrom(host, calls[Len(calls)]) :
        LET g == get_new_token_reply(r)
            v == set_iface_validate(if_state)
            setting == Info("Setting interface " \o if_name \o " to " \o if_state)
        IN  /\ last' = [method |-> "login", reply |-> r]
            /\ IF g.exc # NoExc
               THEN /\ Finish(g.exc, PyNone, <<>>, <<>>)
                    /\ log' = log \o g.log
                    /\ UNCHANGED <<token, calls>>
               ELSE IF entry = "get_new_token"
               THEN /\ Finish(NoExc, g.ret, <<>>, <<>>)
                    /\ log' = log \o g.log
                    /\ UNCHANGED <<token, calls>>
               ELSE /\ token' = g.ret
                    /\ IF v.exc # NoExc
                       THEN /\ Finish(v.exc, PyNone, <<>>, <<>>)
                            /\ log' = log \o g.log \o <<setting>> \o v.log
                            /\ UNCHANGED calls
                       ELSE /\ log' = log \o g.log \o <<setting>>
                            /\ Send(set_call(rpc_url, if_name, if_state, g.ret),
                                    "set_wait")
    /\ UNCHANGED <<entry, argv, env, if_name, if_state, username, password,
                   rpc_url, slept>>

\* the reply to the set POST arrives: set_iface up to the commit POST
SetReply ==
    /\ pc = "set_wait"
    /\ \E r \in RepliesFrom(host, calls[Len(calls)]) :
        LET s == set_iface_set_reply(r, if_name, if_state)
        IN  /\ last' = [method |-> "set", reply |-> r]
            /\ log' = log \o s.log
            /\ IF s.exc # NoExc
               THEN /\ Finish(s.exc, PyNone, <<>>, <<>>)
                    /\ UNCHANGED calls
               ELSE Send(commit_call(rpc_url, token), "commit_wait")
    /\ UNCHANGED <<entry, argv, env, if_name, if_state, username, password,
                   rpc_url, token, slept>>

\* the reply to the commit POST arrives: the rest of set_iface, then main()
\* up to time.sleep
CommitReply ==
    /\ pc = "commit_wait"
    /\ \E r \in RepliesFrom(host, calls[Len(calls)]) :
        LET c == set_iface_commit_reply(r)
        IN  /\ last' = [method |-> "commit", reply |-> r]
            /\ IF c.exc # NoExc
               THEN /\ Finish(c.exc, PyNone, <<>>, <<>>)
                    /\ log' = log \o c.log
               ELSE IF entry = "set_iface"
               THEN /\ Finish(NoExc, PyNone, <<>>, <<>>)
                    /\ log' = log \o c.log
               ELSE /\ pc' = "sleeping"
                    /\ log' = log \o c.log
                              \o <<Info("Verifying current state for " \o if_name)>>
                    /\ UNCHANGED <<exc, ret, exit_code, stdout, stderr, host>>
    /\ UNCHANGED <<entry, argv, env, if_name, if_state, username, password,
                   rpc_url, token, calls, slept>>

\* main() without the time.sleep(1): get_iface is called at once
Sleep_skipped ==
    /\ pc = "sleeping"
    /\ slept' = slept
    /\ Send(get_all_call(rpc_url, if_name, token), "get_wait")
    /\ UNCHANGED <<entry, argv, env, if_name, if_state, username, password,
                   rpc_url, token, last, log>>

\* time.sleep(1) is over: main() calls get_iface, up to the get_all POST
Sleep ==
    /\ pc = "sleeping"
    /\ slept' = slept + SleepSeconds
    /\ Send(get_all_call(rpc_url, if_name, token), "get_wait")
    /\ UNCHANGED <<entry, argv, env, if_name, if_state, username, password,
                   rpc_url, token, last, log>>

\* the reply to the get_all POST arrives: the rest of get_iface and of main()
GetReply ==
    /\ pc = "get_wait"
    /\ \E r \in RepliesFrom(host, calls[Len(calls)]) :
        LET g == get_iface_reply(r, if_name)
            w == get_iface_stderr(r, entry)
        IN  /\ last' = [method |-> "get_all", reply |-> r]
            /\ IF g.exc # NoExc
               THEN /\ Finish(g.exc, PyNone, <<>>, w)
                    /\ log' = log \o g.log
               ELSE IF entry = "get_iface"
               THEN /\ Finish(NoExc, g.ret, <<>>, w)
                    /\ log' = log \o g.log
               ELSE LET m == main_report(g.ret, if_name)
                    IN  /\ Finish(m.exc, PyNone, <<>>, w)
                        /\ log' = log \o g.log \o m.log
    /\ UNCHANGED <<entry, argv, env, if_name, if_state, username, password,
                   rpc_url, token, calls, slept>>

Next == Main \/ LoginReply \/ SetReply \/ CommitReply \/ Sleep \/ GetReply

Spec == Init /\ [][Next]_vars

\* ------------------------------------------------------------------------
\* One function called on its own, with arguments of the caller's choice
\* ------------------------------------------------------------------------

StatusArgs == {"0", "1", "2", ""}
TokenArgs == {"'tok123'", "''"}

InitCalls ==
    /\ InitCommon
    /\ entry \in {"get_new_token", "set_iface", "get_iface"}
    /\ argv = <<>>
    /\ env = [user |-> Unset, pass |-> Unset, url |-> Unset]
    /\ rpc_url = "x"
    /\ IF entry = "get_new_token"
       THEN /\ username = "x" /\ password = "x"
            /\ if_name = Unbound /\ if_state = Unbound /\ token = Unbound
       ELSE /\ username = Unbound /\ password = Unbound
            /\ if_name = "lte"
            /\ token \in TokenArgs
            /\ IF entry = "set_iface"
               THEN if_state \in StatusArgs
               ELSE if_state = Unbound

\* get_new_token(rpc_url, username, password), up to the POST
CallGetNewToken ==
    /\ pc = "start" /\ entry = "get_new_token"
    /\ Send(login_call(rpc_url, username, password), "login_wait")
    /\ UNCHANGED <<entry, argv, env, if_name, if_state, username, password,
                   rpc_url, token, last, log, slept>>

\* set_iface(rpc_url, if_name, if_status, token), up to the set POST
CallSetIface ==
    /\ pc = "start" /\ entry = "set_iface"
    /\ LET v == set_iface_validate(if_state)
       IN  /\ log' = log \o v.log
           /\ IF v.exc # NoExc
              THEN /\ Finish(v.exc, PyNone, <<>>, <<>>)
                   /\ UNCHANGED calls
              ELSE Send(set_call(rpc_url, if_name, if_state, token), "set_wait")
    /\ UNCHANGED <<entry, argv, env, if_name, if_state, username, password,
                   rpc_url, token, last, slept>>

\* get_iface(rpc_url, if_name, token), up to the get_all POST
CallGetIface ==
    /\ pc = "start" /\ entry = "get_iface"
    /\ Send(get_all_call(rpc_url, if_name, token), "get_wait")
    /\ UNCHANGED <<entry, argv, env, if_name, if_state, username, password,
                   rpc_url, token, last, log, slept>>

NextCalls ==
    CallGetNewToken \/ CallSetIface \/ CallGetIface
    \/ LoginReply \/ SetReply \/ CommitReply \/ GetReply

SpecCalls == InitCalls /\ [][NextCalls]_vars

\* ------------------------------------------------------------------------
\* Vocabulary of the properties
\* ------------------------------------------------------------------------

CallOrder == <<"login", "set", "commit", "get_all">>

\* the HTTP status is in the success range
HttpOk(r) == r.kind = "response" /\ r.status < 400
\* the body is a JSON object with "error": null
ErrorNull(r) == r.kind = "response" /\ r.json = "object" /\ r.error = JsonNull
\* the body is a JSON object with a non-null "error"
ErrorSet(r) == r.kind = "response" /\ r.json = "object" /\ r.error \in JsonVals

\* the call m answered by r went well
ReplyOk(m, r) ==
    /\ HttpOk(r)
    /\ ErrorNull(r)
    /\ m = "login" => r.result \in JsonVals

\* the ways the set sub-call can fail that the specification lists
SetFailed(r) == r.kind \in TransportExcs \/ ~HttpOk(r) \/ ErrorSet(r)

PyVals == {json_loads(j) : j \in JsonVals}
StateReported ==
    \E i \in 1..Len(log) : \E v \in PyVals \cup {PyNone} :
        log[i] = Info("Current interface state: " \o PyStr(v))
Succeeded ==
    /\ pc = "done" /\ exc = NoExc /\ last.method = "get_all"
    /\ log # <<>>
    /\ \E v \in PyVals : log[Len(log)] = Info("Current interface state: " \o PyStr(v))

WellFormed(a) == Len(a) = 2 /\ a[1] # "-h" /\ a[2] \in {"0", "1"}
HelpAsked(a) == \E i \in 1..Len(a) : a[i] = "-h"
Malformed(a) == ~WellFormed(a) /\ ~HelpAsked(a)
EnvMissing(e) == e.user \in {Unset, ""} \/ e.pass \in {Unset, ""} \/ e.url \in {Unset, ""}

\* ------------------------------------------------------------------------
\* Properties
\* ------------------------------------------------------------------------

\* C1: set_iface called with a state other than "0" and "1" raises the
\* validation failure and has sent no request.
SetIfaceRejectsBadState ==
    (entry = "set_iface" /\ if_state \notin {"0", "1"} /\ pc # "start")
    => /\ pc = "done"
       /\ exc = LuciException("Interface status should be 0 or 1, got "
                              \o if_state \o ". Aborting...")
       /\ calls = <<>>

SetIfaceRejectsBadState_witness ==
    entry = "set_iface" /\ if_state = "" /\ pc = "done" /\ calls = <<>>

\* C2: when the set POST fails (non-OK status, non-null error field or a
\* transport exception) the run is over with set as the last request sent:
\* no commit, no other request.
NoCommitAfterFailedSet ==
    (last.method = "set" /\ SetFailed(last.reply))
    => /\ pc = "done"
       /\ exc # NoExc
       /\ calls # <<>>
       /\ calls[Len(calls)].method = "set"
       /\ \A i \in 1..Len(calls) : calls[i].method \in {"login", "set"}

NoCommitAfterFailedSet_witness ==
    /\ entry = "main" /\ pc = "done" /\ last.method = "set"
    /\ last.reply.kind = "response" /\ last.reply.status = 500
    /\ ErrorNull(last.reply)

\* C3: the requests of a run are a prefix of login, set, commit, get_all;
\* a request is only sent when the one before it went well, and after a
\* failed login, set or commit nothing more is sent.
DriverCallsInOrder ==
    /\ [](/\ Len(calls) <= Len(CallOrder)
          /\ \A i \in 1..Len(calls) : calls[i].method = CallOrder[i]
          /\ \A k \in 1..3 :
                (last.method = CallOrder[k] /\ ~ReplyOk(CallOrder[k], last.reply))
                => (pc = "done" /\ Len(calls) = k))
    /\ [][calls' # calls =>
            /\ Len(calls') = Len(calls) + 1
            /\ SubSeq(calls', 1, Len(calls)) = calls
            /\ calls # <<>> =>
                  /\ last'.method = calls[Len(calls)].method
                  /\ ReplyOk(last'.method, last'.reply)]_vars

DriverCallsInOrder_witness ==
    /\ Len(calls) = 4 /\ pc = "done"
    /\ calls[4].method = "get_all"

\* C4: exit status 0 only on the success outcome; a run that ends in a
\* caught failure prints a message and exits with a non-zero status.
\* (A command line that asks for the help text is left aside: argparse
\* prints it and exits with status 0.)
ExitStatusTellsOutcome ==
    (entry = "main" /\ pc = "done" /\ ~HelpAsked(argv))
    => /\ exit_code = 0 => Succeeded
       /\ exc.type \in {"LuciException", "ConnectTimeout", "ReadTimeout"}
          => (stdout # <<>> /\ exit_code # 0)

\* C5: get_all answered with result null and error null: the driver logs
\* that the interface does not exist and exits with status 2, and never
\* logs a current interface state.
MissingInterfaceExits2 ==
    (entry = "main" /\ last.method = "get_all" /\ ErrorNull(last.reply)
     /\ last.reply.result = JsonNull)
    => /\ pc = "done"
       /\ exit_code = ExitNotFound
       /\ exc = SystemExit(ExitNotFound)
       /\ log[Len(log)] = Info("Interface " \o if_name
              \o " doesn't exist. Please create it before running this program")
       /\ ~StateReported
       /\ ~Succeeded

MissingInterfaceExits2_witness ==
    /\ entry = "main" /\ last.method = "get_all" /\ ErrorNull(last.reply)
    /\ last.reply.result = JsonNull /\ last.reply.status = 200
    /\ exit_code = ExitNotFound

\* C6: login answered with an OK status and a null error field, and a
\* result that is null or absent: get_new_token raises the authentication
\* failure (a LuciException) and returns no token.
LoginWithoutTokenIsAuthFailure ==
    (entry = "get_new_token" /\ last.method = "login" /\ HttpOk(last.reply)
     /\ ErrorNull(last.reply) /\ last.reply.result \in {JsonNull, Absent})
    => /\ pc = "done"
       /\ exc = LuciException("Authentication failed")
       /\ ret = PyNone

\* C7: login answered with an OK status, a null error field and a non-null
\* result: get_new_token returns that result and raises nothing.
LoginReturnsResult ==
    (entry = "get_new_token" /\ last.method = "login" /\ HttpOk(last.reply)
     /\ ErrorNull(last.reply) /\ last.reply.result \in JsonVals)
    => /\ pc = "done"
       /\ exc = NoExc
       /\ ret = json_loads(last.reply.result)
       /\ log = <<>>

LoginReturnsResult_witness ==
    /\ entry = "get_new_token" /\ pc = "done" /\ last.method = "login"
    /\ last.reply.status = 200 /\ ErrorNull(last.reply)
    /\ last.reply.result = "\"\"" /\ ret = "''"

\* C8: any of the four calls answered with status 200 and a non-null error
\* field: the run ends with the LuciException "Got RCP error <error>", and
\* the result is not used (no token, no further request, no state reported).
RpcErrorRaises ==
    (entry = "main" /\ last.reply.kind = "response" /\ last.reply.status = 200
     /\ ErrorSet(last.reply))
    => LET m == "Got RCP error " \o PyStr(json_loads(last.reply.error))
       IN  /\ pc = "done"
           /\ exc = LuciException(m)
           /\ log[Len(log)] = Critical(m)
           /\ stdout = <<m>>
           /\ \E k \in 1..4 : last.method = CallOrder[k] /\ Len(calls) = k
           /\ last.method = "login" => token = Unbound
           /\ ~StateReported
           /\ exit_code # ExitNotFound

RpcErrorRaises_witness ==
    /\ entry = "main" /\ pc = "done" /\ last.method = "get_all"
    /\ last.reply.status = 200 /\ last.reply.json = "object"
    /\ last.reply.error = "\"\"" /\ last.reply.result = "\"tok123\""
    /\ stdout = <<"Got RCP error ">>

\* C9: a malformed command line, or a missing (unset or empty) user,
\* password or base URL, ends the run with no request sent; the malformed
\* command line exits with status 5, the missing value with the
\* configuration failure.
ConfigFailureSendsNothing ==
    (entry = "main" /\ pc # "start")
    => /\ Malformed(argv)
          => /\ pc = "done" /\ calls = <<>>
             /\ exit_code = ExitUsage
             /\ stderr # <<>>
       /\ EnvMissing(env)
          => /\ pc = "done" /\ calls = <<>>
             /\ WellFormed(argv)
                => /\ exc = LuciException("Failed to parse ENV data. Please specify LuCI username, password and host")
                   /\ stdout = <<exc.msg>>

ConfigFailureSendsNothing_witness ==
    /\ entry = "main" /\ pc = "done" /\ WellFormed(argv)
    /\ env = [user |-> "x", pass |-> Unset, url |-> "x"]
    /\ calls = <<>>

\* C10 as stated: every transport failure of a request (connect timeout,
\* read timeout, any other I/O failure) is caught at the top level and
\* shown as one line, never as an unhandled fault.
EveryTransportFailureCaught ==
    (entry = "main" /\ pc = "done" /\ exc.type \in TransportExcs)
    => (Len(stdout) = 1 /\ stderr = <<>>)

\* C10 amended: a connect timeout and a read timeout of any request are
\* caught at the top level and shown as one line each; any other I/O
\* failure is not caught and leaves the process as an unhandled fault.
TimeoutsCaughtOthersNot ==
    (entry = "main" /\ pc = "done" /\ exc.type \in TransportExcs)
    => /\ exc.type = "ConnectTimeout"
          => /\ stdout = <<"Connection timed out. Check if the remote host is alive">>
             /\ stderr = <<>>
       /\ exc.type = "ReadTimeout"
          => /\ stdout = <<"Reading from a connection timed out. Remote host is too slow?">>
             /\ stderr = <<>>
       /\ exc.type \notin {"ConnectTimeout", "ReadTimeout"}
          => /\ stdout = <<>>
             /\ stderr = <<"Traceback">>
             /\ exit_code = 1

TimeoutsCaughtOthersNot_witness ==
    /\ entry = "main" /\ pc = "done" /\ exc.type = "ReadTimeout"
    /\ last.method = "get_all"
    /\ stdout = <<"Reading from a connection timed out. Remote host is too slow?">>

\* C11: the login request carries no auth parameter; every set, commit and
\* get_all request carries auth equal to the token, which is the non-null
\* result of this run's login reply and never changes once assigned.
TokenPassedUnchanged ==
    /\ [](\A i \in 1..Len(calls) :
            IF calls[i].method = "login"
            THEN calls[i].auth = Absent
            ELSE calls[i].auth = token /\ token \in PyVals)
    /\ [][token # Unbound => token' = token]_vars
    /\ [][token' # token =>
            /\ last'.method = "login"
            /\ last'.reply.result \in JsonVals
            /\ token' = json_loads(last'.reply.result)]_vars

TokenPassedUnchanged_witness ==
    /\ entry = "main" /\ Len(calls) = 4 /\ token = "''"
    /\ calls[1].auth = Absent /\ calls[4].auth = "''"

\* the message of the LuciException raised for a non-OK status of call m
StatusFailure(m, r) ==
    CASE m = "login" -> "Got unexpected response code " \o ToString(r.status)
      [] m = "set" -> "Failed to set interface " \o if_name \o " to " \o if_state
                      \o " with the error code " \o ToString(r.status)
      [] m = "commit" -> "Failed to commit changes with the error code "
                         \o ToString(r.status)
RpcFailure(r) == "Got RCP error " \o PyStr(json_loads(r.error))

\* C12 as stated: a non-null error field makes the call raise the RPC
\* protocol failure whatever the HTTP status is.
RpcErrorWinsOverStatus ==
    (entry = "main" /\ last.method \in {"login", "set", "commit", "get_all"}
     /\ ErrorSet(last.reply))
    => (pc = "done" /\ exc = LuciException(RpcFailure(last.reply)))

\* C12 amended: for login, set and commit a non-null error field raises
\* the RPC protocol failure only when the HTTP status is OK; with a non-OK
\* status the call raises the failure that names the status code and the
\* error field is not looked at.  For get_all a non-null error field raises
\* the RPC protocol failure whatever the status is.
StatusCheckedBeforeRpcError ==
    (entry = "main" /\ last.method \in {"login", "set", "commit", "get_all"}
     /\ ErrorSet(last.reply))
    => /\ pc = "done"
       /\ exc.type = "LuciException"
       /\ stdout = <<exc.msg>>
       /\ IF last.method = "get_all" \/ HttpOk(last.reply)
          THEN exc.msg = RpcFailure(last.reply)
          ELSE exc.msg = StatusFailure(last.method, last.reply)

StatusCheckedBeforeRpcError_witness ==
    /\ entry = "main" /\ pc = "done" /\ last.method = "set"
    /\ last.reply.status = 500 /\ last.reply.error = "\"tok123\""
    /\ exc.msg = "Failed to set interface lte to 1 with the error code 500"

\* C13: a non-OK status of the get_all reply does not abort the run:
\* get_iface logs a warning, still checks the error field and, the error
\* being null, returns the result, so the run ends in the success outcome
\* (result non-null) or the not-found outcome (result null).
GetAllStatusOnlyWarns ==
    (entry = "main" /\ last.method = "get_all" /\ last.reply.kind = "response"
     /\ ~HttpOk(last.reply) /\ last.reply.json = "object")
    => /\ pc = "done"
       /\ \E i \in 1..Len(log) :
             log[i] = Warning("Failed to get interface status for " \o if_name)
       /\ ErrorSet(last.reply) => exc = LuciException(RpcFailure(last.reply))
       /\ (ErrorNull(last.reply) /\ last.reply.result \in JsonVals)
          => /\ Succeeded
             /\ exit_code = 0
             /\ log[Len(log)] = Info("Current interface state: "
                                     \o PyStr(json_loads(last.reply.result)))
       /\ (ErrorNull(last.reply) /\ last.reply.result = JsonNull)
          => /\ exit_code = ExitNotFound
             /\ ~StateReported

GetAllStatusOnlyWarns_witness ==
    /\ entry = "main" /\ pc = "done" /\ last.method = "get_all"
    /\ last.reply.status = 500 /\ ErrorNull(last.reply)
    /\ last.reply.result = "\"tok123\""
    /\ Succeeded

\* C14: the commit POST is only sent once the set POST went well, and when
\* the commit then fails the run is over with login, set, commit as the only
\* requests: the change made by set stays uncommitted, nothing undoes it,
\* there is no pause and no get_all.
FailedCommitLeavesSetApplied ==
    /\ []((entry = "main" /\ last.method = "commit"
           /\ ~ReplyOk("commit", last.reply))
          => /\ pc = "done"
             /\ exc # NoExc
             /\ Len(calls) = 3
             /\ \A i \in 1..3 : calls[i].method = CallOrder[i]
             /\ calls[2].params = <<"network", if_name, "auto", if_state>>
             /\ slept = 0
             /\ ~StateReported
             /\ exit_code # ExitNotFound)
    /\ [][(pc # "commit_wait" /\ pc' = "commit_wait")
          => (last'.method = "set" /\ ReplyOk("set", last'.reply))]_vars

FailedCommitLeavesSetApplied_witness ==
    /\ entry = "main" /\ pc = "done" /\ last.method = "commit"
    /\ last.reply.kind = "response" /\ last.reply.status = 500
    /\ ErrorNull(last.reply)
    /\ Len(calls) = 3

\* C15: write, wait, read.  The get_all request is sent only from the
\* pause that follows a commit that went well, and only with the pause
\* spent; no run has a get_all request without the commit before it and
\* the pause in between.
ReadFollowsWriteAndWait ==
    /\ []((entry = "main" /\ \E i \in 1..Len(calls) : calls[i].method = "get_all")
          => /\ Len(calls) = 4
             /\ calls[3].method = "commit"
             /\ calls[4].method = "get_all"
             /\ slept = SleepSeconds)
    /\ []((entry = "main" /\ pc = "sleeping")
          => /\ last.method = "commit"
             /\ ReplyOk("commit", last.reply)
             /\ Len(calls) = 3
             /\ slept = 0)
    /\ [][(entry = "main" /\ calls' # calls
           /\ calls'[Len(calls')].method = "get_all")
          => /\ pc = "sleeping"
             /\ last.method = "commit"
             /\ ReplyOk("commit", last.reply)
             /\ slept' = slept + SleepSeconds]_vars

ReadFollowsWriteAndWait_witness ==
    /\ entry = "main" /\ pc = "get_wait" /\ slept = SleepSeconds
    /\ calls[Len(calls)].method = "get_all"
    /\ last.method = "commit"

\* ------------------------------------------------------------------------
\* Progress
\* The process runs whenever it is not blocked, and a requests.post returns
\* whenever there is something for it to return: the host's answer, or the
\* timeout exception.  A request the host never ends, and no timeout cuts
\* short, leaves no step to take.
\* ------------------------------------------------------------------------

SpecLive ==
    /\ Init
    /\ [][Next]_vars
    /\ WF_vars(Main)
    /\ WF_vars(LoginReply)
    /\ WF_vars(SetReply)
    /\ WF_vars(CommitReply)
    /\ WF_vars(Sleep)
    /\ WF_vars(GetReply)

WaitingFor(m) == pc = CASE m = "login" -> "login_wait"
                        [] m = "set" -> "set_wait"
                        [] m = "commit" -> "commit_wait"
                        [] m = "get_all" -> "get_wait"
Waiting == \E m \in {"login", "set", "commit", "get_all"} : WaitingFor(m)

\* C16 as stated: every request blocks only until a response or a timeout,
\* so every run reaches a terminal outcome, whichever request the remote
\* host leaves unanswered.
EveryRunEnds == <>(pc = "done")

\* C16 amended: only the login request has a timeout.  A host that never
\* answers the login (it stays silent) cannot block the run: the read
\* timeout fires and the run ends with its message.  A host that never
\* answers the set, commit or get_all request blocks the run for ever, and
\* so does a host that keeps sending a response slowly without ending it,
\* for any request, the login included.
OnlySilentLoginIsBounded ==
    /\ [](WaitingFor("login") => calls[Len(calls)].timeout = LoginTimeout)
    /\ [](\A m \in {"set", "commit", "get_all"} :
            WaitingFor(m) => calls[Len(calls)].timeout = NoTimeout)
    /\ ((WaitingFor("login") /\ host = "silent")
        ~> (/\ pc = "done"
            /\ last.method = "login"
            /\ exc.type = "ReadTimeout"
            /\ stdout = <<"Reading from a connection timed out. Remote host is too slow?">>))
    /\ [][(Waiting /\ (host = "trickles"
                       \/ (host = "silent" /\ ~WaitingFor("login"))))
          => UNCHANGED vars]_vars

OnlySilentLoginIsBounded_witness ==
    /\ entry = "main" /\ pc = "done" /\ last.method = "login"
    /\ host = "silent"
    /\ last.reply.kind = "ReadTimeout"
    /\ calls[1].timeout = LoginTimeout
    /\ stdout = <<"Reading from a connection timed out. Remote host is too slow?">>

\* C17: in a run of the driver the check of set_iface cannot fail.  A
\* state other than "0" and "1" on the command line ends the run with
\* status 5 before the login, so once a request has been sent the state is
\* "0" or "1" and no run ends in the validation failure after a login.
DriverNeverFailsValidation ==
    entry = "main"
    => /\ calls # <<>> => if_state \in {"0", "1"}
       /\ \A s \in ArgTokens \cup {Unbound} :
             exc # LuciException("Interface status should be 0 or 1, got "
                                 \o s \o ". Aborting...")
       /\ (pc # "start" /\ ~HelpAsked(argv) /\ Len(argv) >= 2
           /\ argv[2] \notin {"0", "1"})
          => /\ pc = "done"
             /\ exit_code = ExitUsage
             /\ calls = <<>>

DriverNeverFailsValidation_witness ==
    /\ entry = "main" /\ pc = "set_wait" /\ if_state = "0"
    /\ Len(calls) = 2 /\ calls[2].params[4] = "0"
====
